---- MODULE Spec2Model ----
(***************************************************************************)
(* Facility-reservation backend (src/main.py): the reservation store, the  *)
(* POST /reservations handler (create_reservation), the                    *)
(* DELETE /reservations/{reservation_id} handler (delete_reservation), the *)
(* GET /facilities handler (read_facilities) and the session dependency    *)
(* (get_db).                                                               *)
(*                                                                         *)
(* Every statement of a handler that talks to the database or reads the    *)
(* clock is one step of the request's process, so that two requests can    *)
(* interleave between their queries and their commits.  Each request has   *)
(* its own session (get_db); a query reads the committed rows, which is    *)
(* what the first read of a transaction sees, and commit makes the         *)
(* session's insert or delete visible to everyone.  When a handler has     *)
(* answered, its locals are gone and its slot is idle again; response[p]   *)
(* keeps the answer until the slot's next request arrives.                 *)
(*                                                                         *)
(* Timestamps are instants 0..MaxTime of one day.                          *)
(***************************************************************************)
EXTENDS Integers, FiniteSets, Sequences, TLC

\* ---------------------------------------------------------------- bounds
MaxTime == 2          \* the clock and the request timestamps range over 0..MaxTime
MaxRows == 2          \* Create requests are admitted while nextId <= MaxRows
MaxLimit == 2         \* GET /facilities: limit ranges over 0..MaxLimit and the default
MaxOffset == 2        \* GET /facilities: offset ranges over 0..MaxOffset

\* ------------------------------------------------------ program constants
DefaultLimit == 10    \* limit: Optional[int] = Query(10)
DefaultOffset == 0    \* offset: Optional[int] = Query(0)

Procs == {"p1", "p2"}                 \* request slots (at most two requests in flight)
SerialProcs == {"p1"}                 \* the slot used when requests come one at a time
Times == 0 .. MaxTime
RequestFacilityIds == {"F1", "F2", "FX"}   \* "FX" names no facility
UserIds == {"u1"}
AttendeeCounts == {1}
ReservationIds == 1 .. (MaxRows + 1)  \* identifiers a Cancel request may name

\* ------------------------------------------------------------------ state
VARIABLES
    now,            \* datetime.now(): the wall clock
    facilities,     \* table m_company_facilities
    reservations,   \* table t_company_facility_reservations (committed rows)
    nextId,         \* AUTO_INCREMENT counter of reservation_id
    pc,             \* pc[p]: where request p stands in its handler
    request,        \* request[p]: body of POST /reservations (ReservationRequest)
    reservation_id, \* reservation_id[p]: path parameter of DELETE /reservations/{id}
    reservation,    \* reservation[p]: the row delete_reservation loaded, or the
                    \* new_reservation of create_reservation once it has its key
    response,       \* response[p]: the answer of slot p's last request
    repeat,         \* repeat[p]: the last request of slot p named again what the
                    \* Cancel answered just before it in this slot had removed
                    \* (history only: no handler reads it)
    orphaned,       \* orphaned[p]: "create" or "cancel" when the last such request of
                    \* slot p named (a Cancel through its reservation) a facility
                    \* whose row had been removed from the table, "" otherwise
                    \* (history only: no handler reads it)
    session,        \* session[p]: the db of get_db for slot p's request
    search,         \* search[p]: query parameters of GET /facilities
    total_count,    \* total_count[p]: the COUNT(*) read_facilities has read
    result          \* result[p]: the answer of slot p's last GET /facilities

vars == <<now, facilities, reservations, nextId, pc, request, reservation_id,
          reservation, response, repeat, orphaned, session, search, total_count,
          result>>

\* what only read_facilities touches
searchVars == <<search, total_count, result>>

\* rows of m_company_facilities (class Facility)
FacilityTable ==
    { [facility_id |-> "F1", facility_name |-> "Room A", facility_type |-> "meeting", capacity |-> 10],
      [facility_id |-> "F2", facility_name |-> "Room B", facility_type |-> "hall",    capacity |-> 4] }

\* class ReservationRequest
ReservationRequest ==
    [facility_id : RequestFacilityIds, start_time : Times, end_time : Times,
     user_id : UserIds, attendee_count : AttendeeCounts]

NoRequest == [facility_id |-> "", start_time |-> 0, end_time |-> 0,
              user_id |-> "", attendee_count |-> 0]

\* no row loaded: the None of Query.first()
NoRow == [reservation_id |-> 0, user_id |-> "", facility_id |-> "", start_time |-> 0,
          end_time |-> 0, attendee_count |-> 0]

NoResponse == [status_code |-> 0, detail |-> "", reservation_id |-> 0, facility_name |-> "",
               time_slot |-> <<>>]

\* raise HTTPException(status_code, detail)
HTTPException(code, detail) ==
    [status_code |-> code, detail |-> detail, reservation_id |-> 0, facility_name |-> "",
     time_slot |-> <<>>]

\* ReservationResponse(reservation_id, facility_name, reservation_date, time_slot,
\* status="success", message): the date and the "HH:MM-HH:MM" slot name the two instants;
\* detail holds the message, "reserved" or "cancelled"
ReservationResponse(id, name, start, end, message) ==
    [status_code |-> 200, detail |-> message, reservation_id |-> id, facility_name |-> name,
     time_slot |-> <<start, end>>]

\* ------------------------------------------------------- queries (pure)
\* mutant: the query only asks whether an existing reservation starts inside the slot
OverlapFilter_StartInside(row, req) ==
    /\ row.facility_id = req.facility_id
    /\ row.start_time >= req.start_time
    /\ row.start_time < req.end_time

\* mutant: the query only asks whether an existing reservation ends inside the slot
OverlapFilter_EndInside(row, req) ==
    /\ row.facility_id = req.facility_id
    /\ row.end_time > req.start_time
    /\ row.end_time <= req.end_time

\* mutant: closed intervals, <= and >= in place of < and >
OverlapFilter_Closed(row, req) ==
    /\ row.facility_id = req.facility_id
    /\ row.start_time <= req.end_time
    /\ row.end_time >= req.start_time

\* the filter of the overlap query: same facility, start < request.end, end > request.start
OverlapFilter(row, req) ==
    /\ row.facility_id = req.facility_id
    /\ row.start_time < req.end_time
    /\ row.end_time > req.start_time

\* db.query(Reservation).filter(and_(...)): the rows the overlap query matches
ExistingReservations(rows, req) == { row \in rows : OverlapFilter(row, req) }

\* mutant: <= in place of <
StartsInPast_OrNow(req, clock) == req.start_time <= clock

\* request.start_time < datetime.now()
StartsInPast(req, clock) == req.start_time < clock

\* db.query(Facility).filter(Facility.facility_id == id): the matching rows
FacilityRows(table, id) == { f \in table : f.facility_id = id }

\* mutant: the filter on reservation_id is left out
ReservationRows_Unfiltered(rows, id) == rows

\* db.query(Reservation).filter(Reservation.reservation_id == id): the matching rows
ReservationRows(rows, id) == { row \in rows : row.reservation_id = id }

\* Reservation(user_id=..., ...) with its generated key.  created_date (the clock at
\* the insert) is written once and read by no handler; the rows leave it out.
NewReservation(req, id) ==
    [reservation_id |-> id, user_id |-> req.user_id, facility_id |-> req.facility_id,
     start_time |-> req.start_time, end_time |-> req.end_time,
     attendee_count |-> req.attendee_count]

\* mutant: the key is one more than the largest key the table holds
GeneratedKey_MaxPlusOne(counter, rows) ==
    IF rows = {} THEN 1
    ELSE 1 + (CHOOSE m \in {row.reservation_id : row \in rows} :
                  \A row \in rows : row.reservation_id <= m)

\* reservation_id = Column(Integer, primary_key=True, autoincrement=True): the key of
\* an inserted row is the table's AUTO_INCREMENT counter
GeneratedKey(counter, rows) == counter

\* mutant: the session is closed after the yield, without a finally
GetDbExit_NoFinally(raised) == IF raised THEN "open" ELSE "closed"

\* get_db after the yield, whether the handler returned or raised:
\* finally: if db: db.close()
GetDbExit(raised) == "closed"

\* no GET /facilities in the slot
NoSearch == [facility_type |-> "", location |-> <<>>, capacity |-> 0, limit |-> 0,
             offset |-> 0, facility_name |-> <<>>]

NoResult == [status |-> "", total_count |-> 0, limit |-> 0, offset |-> 0, message |-> "",
             data |-> {}]

\* mutant: the row is only flagged, not deleted
DeleteRow_Soft(rows, row) == rows

\* db.delete(reservation); db.commit(): DELETE ... WHERE reservation_id = :id
DeleteRow(rows, row) == { r \in rows : r.reservation_id # row.reservation_id }

\* ------------------------------------------------------------------ Init
Init ==
    /\ now = 0
    /\ facilities = FacilityTable
    /\ reservations = {}
    /\ nextId = 1
    /\ pc = [p \in Procs |-> "idle"]
    /\ request = [p \in Procs |-> NoRequest]
    /\ reservation_id = [p \in Procs |-> 0]
    /\ reservation = [p \in Procs |-> NoRow]
    /\ response = [p \in Procs |-> NoResponse]
    /\ repeat = [p \in Procs |-> FALSE]
    /\ orphaned = [p \in Procs |-> ""]
    /\ session = [p \in Procs |-> "none"]
    /\ search = [p \in Procs |-> NoSearch]
    /\ total_count = [p \in Procs |-> 0]
    /\ result = [p \in Procs |-> NoResult]

\* where a create_reservation call stands before its INSERT has been sent
PreInsertStages == {"create_time", "create_overlap", "create_facility", "create_insert"}

\* where a create_reservation call can stand
CreateStages == PreInsertStages \cup {"create_commit"}

\* resp confirms a cancellation, and req books the facility and the slot it names
SameSlotAgain(resp, req) ==
    /\ resp.status_code = 200
    /\ resp.detail = "cancelled"
    /\ resp.time_slot = <<req.start_time, req.end_time>>
    /\ \E f \in FacilityTable :
          f.facility_id = req.facility_id /\ f.facility_name = resp.facility_name

\* the facility table had a row for id and has it no more
Removed(table, id) ==
    /\ FacilityRows(FacilityTable, id) # {}
    /\ FacilityRows(table, id) = {}

\* resp confirms a cancellation, and id is the identifier it names
SameIdAgain(resp, id) ==
    /\ resp.status_code = 200
    /\ resp.detail = "cancelled"
    /\ resp.reservation_id = id

\* the handler of slot p answers resp (a return or a raise) and is over
Answer(p, resp) ==
    /\ response' = [response EXCEPT ![p] = resp]
    /\ pc' = [pc EXCEPT ![p] = "idle"]
    /\ request' = [request EXCEPT ![p] = NoRequest]
    /\ reservation_id' = [reservation_id EXCEPT ![p] = 0]
    /\ reservation' = [reservation EXCEPT ![p] = NoRow]
    /\ session' = [session EXCEPT ![p] = GetDbExit(resp.status_code # 200)]
    /\ UNCHANGED <<repeat, orphaned, searchVars>>

\* the handler of slot p goes on to its next statement
Goto(p, label) ==
    /\ pc' = [pc EXCEPT ![p] = label]
    /\ UNCHANGED <<request, reservation_id, reservation, response, repeat, orphaned, session,
                   searchVars>>

\* -------------------------------------------------------------- the clock
Tick ==
    /\ now < MaxTime
    /\ now' = now + 1
    /\ UNCHANGED <<facilities, reservations, nextId, pc, request, reservation_id,
                   reservation, response, repeat, orphaned, session, searchVars>>

\* ----------------------------------------------------- the facility table
\* No handler writes m_company_facilities; its rows are administered outside this
\* program.  A row is removed while no request is in flight; the reservations that
\* name it stay (the tables have no foreign key).
RemoveFacility ==
    /\ \A p \in Procs : pc[p] = "idle"
    /\ \E f \in facilities : facilities' = facilities \ {f}
    /\ UNCHANGED <<now, reservations, nextId, pc, request, reservation_id, reservation,
                   response, repeat, orphaned, session, searchVars>>

\* ------------------------------------------------- POST /reservations
\* the request arrives with a body out of bodies: it is parsed and get_db opens the
\* session
ReceiveCreateOf(p, bodies) ==
    /\ pc[p] = "idle"
    /\ nextId + Cardinality({q \in Procs : pc[q] \in PreInsertStages}) <= MaxRows
    /\ \E req \in bodies :
          /\ request' = [request EXCEPT ![p] = req]
          /\ repeat' = [repeat EXCEPT ![p] = SameSlotAgain(response[p], req)]
          /\ orphaned' = [orphaned EXCEPT
                             ![p] = IF Removed(facilities, req.facility_id)
                                       THEN "create" ELSE ""]
    /\ pc' = [pc EXCEPT ![p] = "create_time"]
    /\ response' = [response EXCEPT ![p] = NoResponse]
    /\ session' = [session EXCEPT ![p] = "open"]
    /\ UNCHANGED <<now, facilities, reservations, nextId, reservation_id, reservation,
                   searchVars>>

ReceiveCreate(p) == ReceiveCreateOf(p, ReservationRequest)

\* 1. the start must not lie in the past
CreateTimeCheck(p) ==
    /\ pc[p] = "create_time"
    /\ IF StartsInPast(request[p], now)
          THEN Answer(p, HTTPException(400, "InvalidTimeRange"))
          ELSE Goto(p, "create_overlap")
    /\ UNCHANGED <<now, facilities, reservations, nextId>>

\* mutant: the facility is looked up before the overlap query
CreateOverlapQuery_FacilityFirst(p) ==
    /\ pc[p] = "create_overlap"
    /\ IF FacilityRows(facilities, request[p].facility_id) = {}
          THEN Answer(p, HTTPException(404, "FacilityNotFound"))
          ELSE IF ExistingReservations(reservations, request[p]) # {}
                  THEN Answer(p, HTTPException(400, "SlotConflict"))
                  ELSE Goto(p, "create_facility")
    /\ UNCHANGED <<now, facilities, reservations, nextId>>

\* 2. the overlap query on the same facility
CreateOverlapQuery(p) ==
    /\ pc[p] = "create_overlap"
    /\ IF ExistingReservations(reservations, request[p]) # {}
          THEN Answer(p, HTTPException(400, "SlotConflict"))
          ELSE Goto(p, "create_facility")
    /\ UNCHANGED <<now, facilities, reservations, nextId>>

\* mutant: the facility lookup is not checked
CreateFacilityQuery_Unchecked(p) ==
    /\ pc[p] = "create_facility"
    /\ Goto(p, "create_insert")
    /\ UNCHANGED <<now, facilities, reservations, nextId>>

\* 3. the facility is looked up
CreateFacilityQuery(p) ==
    /\ pc[p] = "create_facility"
    /\ IF FacilityRows(facilities, request[p].facility_id) = {}
          THEN Answer(p, HTTPException(404, "FacilityNotFound"))
          ELSE Goto(p, "create_insert")
    /\ UNCHANGED <<now, facilities, reservations, nextId>>

\* 4. db.add(new_reservation); db.commit(), first half: the flush sends the INSERT
\* and the row gets its key from the AUTO_INCREMENT counter, which moves on whether
\* or not the transaction commits.  The row is not yet visible to other sessions.
CreateInsert(p) ==
    /\ pc[p] = "create_insert"
    /\ reservation' = [reservation EXCEPT
                          ![p] = NewReservation(request[p],
                                                GeneratedKey(nextId, reservations))]
    /\ nextId' = nextId + 1
    /\ pc' = [pc EXCEPT ![p] = "create_commit"]
    /\ UNCHANGED <<now, facilities, reservations, request, reservation_id, response,
                   repeat, orphaned, session, searchVars>>

\* 4.-5. db.commit(), second half: COMMIT makes the row visible; db.refresh reads it
\* back and the confirmation is returned
CreateCommit(p) ==
    /\ pc[p] = "create_commit"
    /\ reservations' = reservations \cup {reservation[p]}
    /\ \E f \in FacilityRows(facilities, request[p].facility_id) :
          Answer(p, ReservationResponse(reservation[p].reservation_id, f.facility_name,
                                        request[p].start_time, request[p].end_time,
                                        "reserved"))
    /\ UNCHANGED <<now, facilities, nextId>>

\* ------------------------------------- DELETE /reservations/{reservation_id}
\* the request arrives and get_db opens its session
ReceiveCancel(p) ==
    /\ pc[p] = "idle"
    /\ \E id \in ReservationIds :
          /\ reservation_id' = [reservation_id EXCEPT ![p] = id]
          /\ repeat' = [repeat EXCEPT ![p] = SameIdAgain(response[p], id)]
          /\ orphaned' = [orphaned EXCEPT
                             ![p] = IF \E row \in ReservationRows(reservations, id) :
                                           Removed(facilities, row.facility_id)
                                       THEN "cancel" ELSE ""]
    /\ pc' = [pc EXCEPT ![p] = "delete_find"]
    /\ response' = [response EXCEPT ![p] = NoResponse]
    /\ session' = [session EXCEPT ![p] = "open"]
    /\ UNCHANGED <<now, facilities, reservations, nextId, request, reservation,
                   searchVars>>

\* the reservation is looked up by its identifier
CancelFindReservation(p) ==
    /\ pc[p] = "delete_find"
    /\ IF ReservationRows(reservations, reservation_id[p]) = {}
          THEN Answer(p, HTTPException(404, "ReservationNotFound"))
          ELSE /\ \E row \in ReservationRows(reservations, reservation_id[p]) :
                     reservation' = [reservation EXCEPT ![p] = row]
               /\ pc' = [pc EXCEPT ![p] = "delete_facility"]
               /\ UNCHANGED <<request, reservation_id, response, repeat, orphaned, session,
                              searchVars>>
    /\ UNCHANGED <<now, facilities, reservations, nextId>>

\* mutant: the facility lookup is not checked
CancelFacilityQuery_Unchecked(p) ==
    /\ pc[p] = "delete_facility"
    /\ Goto(p, "delete_commit")
    /\ UNCHANGED <<now, facilities, reservations, nextId>>

\* the reservation's facility is looked up
CancelFacilityQuery(p) ==
    /\ pc[p] = "delete_facility"
    /\ IF FacilityRows(facilities, reservation[p].facility_id) = {}
          THEN Answer(p, HTTPException(404, "FacilityNotFound"))
          ELSE Goto(p, "delete_commit")
    /\ UNCHANGED <<now, facilities, reservations, nextId>>

\* the row is deleted and the delete committed; a DELETE that matches no row
\* (the row is already gone) is not an error
CancelCommit(p) ==
    /\ pc[p] = "delete_commit"
    /\ reservations' = DeleteRow(reservations, reservation[p])
    /\ \E f \in FacilityRows(facilities, reservation[p].facility_id) :
          Answer(p, ReservationResponse(reservation[p].reservation_id, f.facility_name,
                                        reservation[p].start_time, reservation[p].end_time,
                                        "cancelled"))
    /\ UNCHANGED <<now, facilities, nextId>>

\* ------------------------------------------------------------- get_db
\* the stages of create_reservation and delete_reservation at which a statement is
\* sent to the database
DbStages == {"create_overlap", "create_facility", "create_insert", "create_commit",
             "delete_find", "delete_facility", "delete_commit"}

\* a statement fails in the database: the SQLAlchemyError leaves the handler, get_db
\* catches it at its yield and raises HTTPException(500, "Database error"), and the
\* finally closes the session, which rolls back what was not committed (a key that
\* was generated is spent)
StoreError(p) ==
    /\ pc[p] \in DbStages
    /\ Answer(p, HTTPException(500, "Database error"))
    /\ UNCHANGED <<now, facilities, reservations, nextId>>

\* ------------------------------------------------------- GET /facilities
\* Text that is matched piece by piece is a sequence of letters: facility names, the
\* words of a location and the search terms.  A query parameter that is None, "" or 0
\* is falsy in Python; the three are one value here ("" for the type, <<>> for a term,
\* 0 for the capacity).  limit and offset are naturals.

\* rows of m_company_facilities with the columns that the filters read
SearchPool ==
    { [facility_id |-> "F1", facility_name |-> <<"L", "a", "b">>, facility_type |-> "meeting",
       capacity |-> 4,  location |-> << <<"t", "o">>, <<"k", "u">> >>],
      [facility_id |-> "F2", facility_name |-> <<"H", "a", "l", "l">>, facility_type |-> "hall",
       capacity |-> 10, location |-> << <<"o", "s">> >>],
      [facility_id |-> "F3", facility_name |-> <<"l", "a", "b">>, facility_type |-> "meeting",
       capacity |-> 10, location |-> << <<"t", "o">> >>],
      [facility_id |-> "F4", facility_name |-> <<"P", "o", "d">>, facility_type |-> "hall",
       capacity |-> 5,  location |-> << <<"k", "u">>, <<"t", "a">> >>] }

\* the facility tables the search is run against
SearchTables == SUBSET SearchPool

FacilityTypeFilters == {"", "meeting", "hall", "studio"}
LocationFilters == {<<>>, <<"t">>, <<"k", "u">>}
CapacityFilters == {0, 5, 10, 11}
NameFilters == {<<>>, <<"l", "a">>}

\* the query string of GET /facilities; facility_name is a parameter the handler
\* does not declare, FastAPI drops it
SearchQuery ==
    [facility_type : FacilityTypeFilters, location : LocationFilters,
     capacity : CapacityFilters, limit : (0 .. MaxLimit) \cup {DefaultLimit},
     offset : 0 .. MaxOffset, facility_name : NameFilters]

\* term is a prefix of word
IsPrefix(term, word) ==
    /\ Len(term) <= Len(word)
    /\ \A i \in 1 .. Len(term) : term[i] = word[i]

\* MATCH(location) AGAINST(:location IN BOOLEAN MODE) with :location = term*:
\* some word of the location begins with the term
LocationMatch(row, term) ==
    \E i \in 1 .. Len(row.location) : IsPrefix(term, row.location[i])

\* mutant: the capacity filter keeps the rooms that are not larger than asked
SearchWhere_CapacityAtMost(row, q) ==
    /\ (q.facility_type # "") => row.facility_type = q.facility_type
    /\ (q.location # <<>>) => LocationMatch(row, q.location)
    /\ (q.capacity # 0) => row.capacity <= q.capacity

\* sql_where: WHERE 1=1, AND one condition for every truthy parameter
SearchWhere(row, q) ==
    /\ (q.facility_type # "") => row.facility_type = q.facility_type
    /\ (q.location # <<>>) => LocationMatch(row, q.location)
    /\ (q.capacity # 0) => row.capacity >= q.capacity

\* mutant: the count is taken from the page query, LIMIT applied
CountRows_Limited(table, q) ==
    LET n == Cardinality({ row \in table : SearchWhere(row, q) })
    IN  IF n <= q.limit THEN n ELSE q.limit

\* SELECT COUNT(*) FROM m_company_facilities {sql_where}
CountRows(table, q) == Cardinality({ row \in table : SearchWhere(row, q) })

\* SELECT * FROM m_company_facilities {sql_where} LIMIT :limit OFFSET :offset has no
\* ORDER BY: the rows come in an order the engine chooses, so the page can be any set
\* of matching rows that has the size left after offset rows are skipped
PageRows(table, q) ==
    LET matching == { row \in table : SearchWhere(row, q) }
        n == Cardinality(matching)
        rest == IF n <= q.offset THEN 0 ELSE n - q.offset
        size == IF rest <= q.limit THEN rest ELSE q.limit
    IN  { page \in SUBSET matching : Cardinality(page) = size }

\* mutant: the answer for an empty page reports no match at all
NoFacilitiesFound_ZeroCount(total, q) ==
    [status |-> "success", total_count |-> 0, limit |-> q.limit, offset |-> q.offset,
     message |-> "No facilities found matching the search criteria.", data |-> {}]

\* 3. the answer when the page is empty
NoFacilitiesFound(total, q) ==
    [status |-> "success", total_count |-> total, limit |-> q.limit, offset |-> q.offset,
     message |-> "No facilities found matching the search criteria.", data |-> {}]

\* the answer with the rows of the page, one dict per row
FacilitiesFound(total, q, page) ==
    [status |-> "success", total_count |-> total, limit |-> q.limit, offset |-> q.offset,
     message |-> "", data |-> page]

InitSearch ==
    /\ now = 0
    /\ facilities \in SearchTables
    /\ reservations = {}
    /\ nextId = 1
    /\ pc = [p \in Procs |-> "idle"]
    /\ request = [p \in Procs |-> NoRequest]
    /\ reservation_id = [p \in Procs |-> 0]
    /\ reservation = [p \in Procs |-> NoRow]
    /\ response = [p \in Procs |-> NoResponse]
    /\ repeat = [p \in Procs |-> FALSE]
    /\ orphaned = [p \in Procs |-> ""]
    /\ session = [p \in Procs |-> "none"]
    /\ search = [p \in Procs |-> NoSearch]
    /\ total_count = [p \in Procs |-> 0]
    /\ result = [p \in Procs |-> NoResult]

\* read_facilities returns res and is over
SearchAnswer(p, res) ==
    /\ result' = [result EXCEPT ![p] = res]
    /\ pc' = [pc EXCEPT ![p] = "idle"]
    /\ search' = [search EXCEPT ![p] = NoSearch]
    /\ total_count' = [total_count EXCEPT ![p] = 0]
    /\ session' = [session EXCEPT ![p] = GetDbExit(FALSE)]

\* the request arrives: the query string is parsed and get_db opens the session
ReceiveSearch(p) ==
    /\ pc[p] = "idle"
    /\ \E q \in SearchQuery : search' = [search EXCEPT ![p] = q]
    /\ pc' = [pc EXCEPT ![p] = "search_count"]
    /\ result' = [result EXCEPT ![p] = NoResult]
    /\ session' = [session EXCEPT ![p] = "open"]
    /\ UNCHANGED <<now, facilities, reservations, nextId, request, reservation_id,
                   reservation, response, repeat, orphaned, total_count>>

\* 1. the count query
SearchCount(p) ==
    /\ pc[p] = "search_count"
    /\ total_count' = [total_count EXCEPT ![p] = CountRows(facilities, search[p])]
    /\ pc' = [pc EXCEPT ![p] = "search_page"]
    /\ UNCHANGED <<now, facilities, reservations, nextId, request, reservation_id,
                   reservation, response, repeat, orphaned, session, search, result>>

\* 2.-3. the page query and the answer
SearchPage(p) ==
    /\ pc[p] = "search_page"
    /\ \E page \in PageRows(facilities, search[p]) :
          IF page = {}
             THEN SearchAnswer(p, NoFacilitiesFound(total_count[p], search[p]))
             ELSE SearchAnswer(p, FacilitiesFound(total_count[p], search[p], page))
    /\ UNCHANGED <<now, facilities, reservations, nextId, request, reservation_id,
                   reservation, response, repeat, orphaned>>

\* ---------------------------------------------------------- specifications
\* requests arrive at any time and their steps interleave
Next ==
    \/ Tick
    \/ \E p \in Procs : ReceiveCreate(p)
    \/ \E p \in Procs : ReceiveCancel(p)
    \/ \E p \in Procs : CreateTimeCheck(p)
    \/ \E p \in Procs : CreateOverlapQuery(p)
    \/ \E p \in Procs : CreateFacilityQuery(p)
    \/ \E p \in Procs : CreateInsert(p)
    \/ \E p \in Procs : CreateCommit(p)
    \/ \E p \in Procs : CancelFindReservation(p)
    \/ \E p \in Procs : CancelFacilityQuery(p)
    \/ \E p \in Procs : CancelCommit(p)

Spec == Init /\ [][Next]_vars

\* each request runs to completion before the next one is received: one slot
NextSerial ==
    \/ Tick
    \/ \E p \in SerialProcs : ReceiveCreate(p)
    \/ \E p \in SerialProcs : ReceiveCancel(p)
    \/ \E p \in SerialProcs : CreateTimeCheck(p)
    \/ \E p \in SerialProcs : CreateOverlapQuery(p)
    \/ \E p \in SerialProcs : CreateFacilityQuery(p)
    \/ \E p \in SerialProcs : CreateInsert(p)
    \/ \E p \in SerialProcs : CreateCommit(p)
    \/ \E p \in SerialProcs : CancelFindReservation(p)
    \/ \E p \in SerialProcs : CancelFacilityQuery(p)
    \/ \E p \in SerialProcs : CancelCommit(p)

SpecSerial == Init /\ [][NextSerial]_vars

\* bodies for one facility whose attendee_count is any small integer
AttendeeRequests ==
    [facility_id : {"F1"}, start_time : Times, end_time : Times, user_id : UserIds,
     attendee_count : {-1, 0, 1}]

ReceiveCreateAttendees(p) == ReceiveCreateOf(p, AttendeeRequests)

\* requests one at a time, the attendee count of a Create unrestricted
NextAttendees ==
    \/ Tick
    \/ \E p \in SerialProcs : ReceiveCreateAttendees(p)
    \/ \E p \in SerialProcs : ReceiveCancel(p)
    \/ \E p \in SerialProcs : CreateTimeCheck(p)
    \/ \E p \in SerialProcs : CreateOverlapQuery(p)
    \/ \E p \in SerialProcs : CreateFacilityQuery(p)
    \/ \E p \in SerialProcs : CreateInsert(p)
    \/ \E p \in SerialProcs : CreateCommit(p)
    \/ \E p \in SerialProcs : CancelFindReservation(p)
    \/ \E p \in SerialProcs : CancelFacilityQuery(p)
    \/ \E p \in SerialProcs : CancelCommit(p)

SpecAttendees == Init /\ [][NextAttendees]_vars

\* bodies that all name facility F1
RoomRequests ==
    [facility_id : {"F1"}, start_time : Times, end_time : Times, user_id : UserIds,
     attendee_count : AttendeeCounts]

ReceiveCreateRoom(p) == ReceiveCreateOf(p, RoomRequests)

\* requests one at a time for one facility, while the facility table is administered
\* from outside
NextAdmin ==
    \/ Tick
    \/ RemoveFacility
    \/ \E p \in SerialProcs : ReceiveCreateRoom(p)
    \/ \E p \in SerialProcs : ReceiveCancel(p)
    \/ \E p \in SerialProcs : CreateTimeCheck(p)
    \/ \E p \in SerialProcs : CreateOverlapQuery(p)
    \/ \E p \in SerialProcs : CreateFacilityQuery(p)
    \/ \E p \in SerialProcs : CreateInsert(p)
    \/ \E p \in SerialProcs : CreateCommit(p)
    \/ \E p \in SerialProcs : CancelFindReservation(p)
    \/ \E p \in SerialProcs : CancelFacilityQuery(p)
    \/ \E p \in SerialProcs : CancelCommit(p)

SpecAdmin == Init /\ [][NextAdmin]_vars

\* the next statement of the handler that runs in slot p
HandlerStep(p) ==
    \/ CreateTimeCheck(p)
    \/ CreateOverlapQuery(p)
    \/ CreateFacilityQuery(p)
    \/ CreateInsert(p)
    \/ CreateCommit(p)
    \/ CancelFindReservation(p)
    \/ CancelFacilityQuery(p)
    \/ CancelCommit(p)

\* bodies that name facility F1 and a slot up to the end of the day
SessionRequests == { req \in RoomRequests : req.end_time = MaxTime }

ReceiveCreateSession(p) == ReceiveCreateOf(p, SessionRequests)

\* requests one at a time, any statement of which can fail in the database
NextSessions ==
    \/ Tick
    \/ \E p \in SerialProcs : ReceiveCreateSession(p)
    \/ \E p \in SerialProcs : ReceiveCancel(p)
    \/ \E p \in SerialProcs : CreateTimeCheck(p)
    \/ \E p \in SerialProcs : CreateOverlapQuery(p)
    \/ \E p \in SerialProcs : CreateFacilityQuery(p)
    \/ \E p \in SerialProcs : CreateInsert(p)
    \/ \E p \in SerialProcs : CreateCommit(p)
    \/ \E p \in SerialProcs : CancelFindReservation(p)
    \/ \E p \in SerialProcs : CancelFacilityQuery(p)
    \/ \E p \in SerialProcs : CancelCommit(p)
    \/ \E p \in SerialProcs : StoreError(p)

\* a handler runs in a worker thread to its return or its raise: a request that is in
\* flight takes its next step
SpecSessions ==
    /\ Init
    /\ [][NextSessions]_vars
    /\ \A p \in SerialProcs : WF_vars(HandlerStep(p))

\* two requests in flight, the Creates for slots of one facility that end with the day
NextRace ==
    \/ Tick
    \/ \E p \in Procs : ReceiveCreateSession(p)
    \/ \E p \in Procs : ReceiveCancel(p)
    \/ \E p \in Procs : CreateTimeCheck(p)
    \/ \E p \in Procs : CreateOverlapQuery(p)
    \/ \E p \in Procs : CreateFacilityQuery(p)
    \/ \E p \in Procs : CreateInsert(p)
    \/ \E p \in Procs : CreateCommit(p)
    \/ \E p \in Procs : CancelFindReservation(p)
    \/ \E p \in Procs : CancelFacilityQuery(p)
    \/ \E p \in Procs : CancelCommit(p)

SpecRace == Init /\ [][NextRace]_vars

\* facility search alone, one request at a time, over every table of SearchTables
NextSearch ==
    \/ \E p \in SerialProcs : ReceiveSearch(p)
    \/ \E p \in SerialProcs : SearchCount(p)
    \/ \E p \in SerialProcs : SearchPage(p)

SpecSearch == InitSearch /\ [][NextSearch]_vars

\* ------------------------------------------------------------ properties
\* what the claims speak of, written without the operators of the model
Clash(row, req) ==
    /\ row.facility_id = req.facility_id
    /\ row.start_time < req.end_time
    /\ req.start_time < row.end_time

Resolves(id) == \E f \in FacilityTable : f.facility_id = id

Stored(id) == \E row \in reservations : row.reservation_id = id

Answered(p) == pc[p] # "idle" /\ pc'[p] = "idle"

Reserved(resp) == resp.status_code = 200 /\ resp.detail = "reserved"

Cancelled(resp) == resp.status_code = 200 /\ resp.detail = "cancelled"

Rejected(resp, code, detail) == resp.status_code = code /\ resp.detail = detail

\* C1: with requests served one at a time, the store never holds two distinct
\* reservations of one facility with r1.start < r2.end and r2.start < r1.end.
C1_NoOverlapSerial ==
    \A r1, r2 \in reservations :
        (r1 # r2 /\ r1.facility_id = r2.facility_id)
            => ~(r1.start_time < r2.end_time /\ r2.start_time < r1.end_time)

\* two reservations of one facility are stored, the later one booked for the earlier
\* slot of the day
C1_Witness ==
    \E r1, r2 \in reservations :
        /\ r1.reservation_id < r2.reservation_id
        /\ r1.facility_id = r2.facility_id
        /\ r2.start_time < r2.end_time
        /\ r2.end_time <= r1.start_time
        /\ r1.start_time < r1.end_time

\* C2: two Create requests for one facility with overlapping intervals never both
\* commit, however their queries and inserts interleave: two confirmed
\* reservations that are both in the store do not overlap.
C2_RacingCreatesNeverBothCommit ==
    \A p, q \in Procs :
        (/\ p # q
         /\ pc[p] = "idle" /\ Reserved(response[p])
         /\ pc[q] = "idle" /\ Reserved(response[q])
         /\ Stored(response[p].reservation_id)
         /\ Stored(response[q].reservation_id)
         /\ response[p].facility_name = response[q].facility_name)
            => ~(/\ response[p].time_slot[1] < response[q].time_slot[2]
                 /\ response[q].time_slot[1] < response[p].time_slot[2])

\* C3: a Create whose start is not in the past is rejected with SlotConflict (400)
\* whenever a stored reservation of the same facility has start < request.end and
\* end > request.start, and then no row is added.
C3_OverlapRejected ==
    [][\A p \in Procs :
          (/\ pc[p] = "create_overlap"
           /\ pc'[p] # pc[p]
           /\ \E row \in reservations :
                 /\ row.facility_id = request[p].facility_id
                 /\ row.start_time < request[p].end_time
                 /\ row.end_time > request[p].start_time)
              => /\ Answered(p)
                 /\ Rejected(response'[p], 400, "SlotConflict")
                 /\ reservations' = reservations
                 /\ nextId' = nextId]_vars

\* a request was rejected with SlotConflict while the store holds a reservation
C3_Witness ==
    \E p \in Procs :
        /\ pc[p] = "idle"
        /\ Rejected(response[p], 400, "SlotConflict")
        /\ Cardinality(reservations) = 1

\* C4: a Create on an existing facility, with its start not in the past and no
\* stored reservation of that facility overlapping it (back to back included), passes
\* every gate, is confirmed and stored beside the rows already there; SlotConflict is
\* answered only when a reservation of the same facility overlaps.
C4_NonOverlappingSucceed ==
    [][\A p \in Procs :
          (pc[p] \in CreateStages /\ pc'[p] # pc[p])
              => /\ (/\ Resolves(request[p].facility_id)
                     /\ ~ \E row \in reservations : Clash(row, request[p])
                     /\ (pc[p] = "create_time" => request[p].start_time >= now))
                        => IF pc[p] = "create_commit"
                              THEN /\ Reserved(response'[p])
                                   /\ reservations \subseteq reservations'
                                   /\ \E row \in reservations' \ reservations :
                                         /\ row.reservation_id = response'[p].reservation_id
                                         /\ row.facility_id = request[p].facility_id
                                         /\ row.start_time = request[p].start_time
                                         /\ row.end_time = request[p].end_time
                              ELSE ~Answered(p)
                 /\ Rejected(response'[p], 400, "SlotConflict")
                        => \E row \in reservations : Clash(row, request[p])]_vars

\* reservation b was just confirmed; it starts where the earlier reservation a of the
\* same facility ends
C4_Witness ==
    \E p \in Procs : \E a, b \in reservations :
        /\ pc[p] = "idle" /\ Reserved(response[p])
        /\ b.reservation_id = response[p].reservation_id
        /\ a.reservation_id < b.reservation_id
        /\ a.facility_id = b.facility_id
        /\ a.start_time < a.end_time
        /\ a.end_time = b.start_time
        /\ b.start_time < b.end_time

\* C5: a Create is rejected with InvalidTimeRange (400), and stores nothing, when its
\* start is strictly earlier than the clock it reads; when its start equals that clock
\* or is later the time gate lets it through.
C5_TimeGate ==
    [][\A p \in Procs :
          (pc[p] = "create_time" /\ pc'[p] # pc[p])
              => IF request[p].start_time < now
                    THEN /\ Answered(p)
                         /\ Rejected(response'[p], 400, "InvalidTimeRange")
                         /\ reservations' = reservations
                         /\ nextId' = nextId
                    ELSE pc'[p] = "create_overlap"]_vars

\* a request was rejected with InvalidTimeRange
C5_Witness ==
    \E p \in Procs :
        /\ pc[p] = "idle"
        /\ Rejected(response[p], 400, "InvalidTimeRange")
        /\ now > 0

\* C6: a successful Cancel removes the row; the Create that follows it for the same
\* facility and slot is confirmed unless its start lies in the past; the Cancel that
\* follows it for the same identifier fails with ReservationNotFound; and an
\* identifier that was given out and is gone never comes back.
C6_CancelIsHardDelete ==
    [][/\ \A p \in Procs :
             /\ (pc[p] = "delete_commit" /\ Answered(p))
                   => /\ Cancelled(response'[p])
                      /\ response'[p].reservation_id = reservation[p].reservation_id
                      /\ ~ \E row \in reservations' :
                             row.reservation_id = reservation[p].reservation_id
             /\ (repeat[p] /\ pc[p] \in CreateStages /\ Answered(p))
                   => \/ /\ Reserved(response'[p])
                         /\ \E row \in reservations' :
                               row.reservation_id = response'[p].reservation_id
                      \/ /\ Rejected(response'[p], 400, "InvalidTimeRange")
                         /\ request[p].start_time < now
             /\ (repeat[p] /\ pc[p] = "delete_find" /\ pc'[p] # pc[p])
                   => /\ Answered(p)
                      /\ Rejected(response'[p], 404, "ReservationNotFound")
       /\ \A id \in 1 .. (nextId - 1) :
             (/\ ~ \E row \in reservations : row.reservation_id = id
              /\ ~ \E p \in Procs :
                     pc[p] = "create_commit" /\ reservation[p].reservation_id = id)
                 => ~ \E row \in reservations' : row.reservation_id = id]_vars

\* the slot of the reservation cancelled just before was booked again and confirmed:
\* the new row is the only one in the store
C6_Witness ==
    \E p \in Procs :
        /\ pc[p] = "idle" /\ repeat[p] /\ Reserved(response[p])
        /\ response[p].time_slot[1] < response[p].time_slot[2]
        /\ \A row \in reservations : row.reservation_id = response[p].reservation_id
        /\ reservations # {}

\* C7: a Cancel whose identifier matches no stored reservation is rejected with
\* ReservationNotFound (404) and leaves the store as it was.
C7_CancelUnknown ==
    [][\A p \in Procs :
          (/\ pc[p] = "delete_find"
           /\ pc'[p] # pc[p]
           /\ ~ \E row \in reservations : row.reservation_id = reservation_id[p])
              => /\ Answered(p)
                 /\ Rejected(response'[p], 404, "ReservationNotFound")
                 /\ reservations' = reservations]_vars

\* a Cancel was rejected with ReservationNotFound while the store holds a reservation
C7_Witness ==
    \E p \in Procs :
        /\ pc[p] = "idle"
        /\ Rejected(response[p], 404, "ReservationNotFound")
        /\ reservations # {}

\* C8: a Create for an identifier that resolves to no facility, having passed the time
\* and the overlap gate, is rejected with FacilityNotFound (404) and stores nothing;
\* every stored reservation names an existing facility.
C8_UnknownFacility ==
    [][/\ \A p \in Procs :
             (/\ pc[p] = "create_facility"
              /\ pc'[p] # pc[p]
              /\ ~Resolves(request[p].facility_id))
                 => /\ Answered(p)
                    /\ Rejected(response'[p], 404, "FacilityNotFound")
                    /\ reservations' = reservations
                    /\ nextId' = nextId
       /\ \A row \in reservations' : Resolves(row.facility_id)]_vars

\* a Create was rejected with FacilityNotFound while the store holds a reservation
C8_Witness ==
    \E p \in Procs :
        /\ pc[p] = "idle"
        /\ Rejected(response[p], 404, "FacilityNotFound")
        /\ reservations # {}

\* C9: every stored reservation ends strictly after it starts.
C9_EndAfterStart ==
    \A row \in reservations : row.end_time > row.start_time

\* C10: of two Cancel requests for one stored identifier running together, exactly one
\* succeeds: no two slots hold a confirmation of the cancellation of the same
\* reservation.
C10_RacingCancelsOneSucceeds ==
    \A p, q \in Procs :
        (/\ p # q
         /\ pc[p] = "idle" /\ Cancelled(response[p])
         /\ pc[q] = "idle" /\ Cancelled(response[q]))
            => response[p].reservation_id # response[q].reservation_id

\* C11: reservation identifiers are unique and strictly increasing in commit order:
\* a Create that is confirmed returns an identifier greater than the identifier of
\* every confirmation given before it.
C11_IncreasingInCommitOrder ==
    [][\A p \in Procs :
          (pc[p] = "create_commit" /\ Answered(p))
              => \A q \in Procs :
                    Reserved(response[q])
                        => response[q].reservation_id < response'[p].reservation_id]_vars

\* C11 (amended): identifiers are unique and strictly increasing in the order in
\* which the rows are inserted: the key a Create gets at its INSERT is greater than
\* every key stored, held by a request in flight or named in an answer, so a key
\* freed by Cancel is never given out again; the confirmation returns the key of the
\* row it stored; no two stored rows share a key.
C11_IncreasingInInsertOrder ==
    [][/\ \A p \in Procs :
             (pc[p] = "create_insert" /\ pc'[p] # pc[p])
                 => /\ \A row \in reservations :
                          row.reservation_id < reservation'[p].reservation_id
                    /\ \A q \in Procs :
                          /\ reservation[q].reservation_id < reservation'[p].reservation_id
                          /\ response[q].reservation_id < reservation'[p].reservation_id
       /\ \A p \in Procs :
             (pc[p] = "create_commit" /\ Answered(p))
                 => /\ Reserved(response'[p])
                    /\ response'[p].reservation_id = reservation[p].reservation_id
                    /\ \E row \in reservations' \ reservations :
                          row.reservation_id = response'[p].reservation_id
       /\ \A r1, r2 \in reservations' :
             r1.reservation_id = r2.reservation_id => r1 = r2]_vars

\* a Create holds the key of its INSERT and has not committed yet, while a Create
\* that got a greater key is already confirmed and stored
C11_Witness ==
    \E p, q \in Procs :
        /\ pc[p] = "create_commit"
        /\ pc[q] = "idle" /\ Reserved(response[q])
        /\ Stored(response[q].reservation_id)
        /\ reservation[p].reservation_id < response[q].reservation_id

\* ----------------------------------------------------- facility search
\* the row passes every filter that the query supplies (type, location, capacity)
Satisfies(row, q) ==
    /\ q.facility_type = "" \/ row.facility_type = q.facility_type
    /\ q.capacity = 0 \/ ~(row.capacity < q.capacity)
    /\ q.location = <<>>
          \/ \E i \in DOMAIN row.location :
                /\ Len(q.location) <= Len(row.location[i])
                /\ SubSeq(row.location[i], 1, Len(q.location)) = q.location

MatchingRows(q) == { row \in facilities : Satisfies(row, q) }

NoFilter(q) == q.facility_type = "" /\ q.capacity = 0 /\ q.location = <<>>

\* read_facilities of slot p returns in this step
SearchAnswered(p) == pc[p] = "search_page" /\ pc'[p] = "idle"

\* the number of rows a page holds when n rows match
PageSize(n, q) ==
    LET rest == IF q.offset < n THEN n - q.offset ELSE 0
    IN  IF q.limit < rest THEN q.limit ELSE rest

LowerCase(c) ==
    CASE c = "L" -> "l" [] c = "H" -> "h" [] c = "P" -> "p" [] OTHER -> c

\* term occurs in name, letter case ignored
ContainsIgnoringCase(name, term) ==
    \E k \in 0 .. (Len(name) - Len(term)) :
        \A j \in 1 .. Len(term) : LowerCase(name[k + j]) = LowerCase(term[j])

C13_RowsSatisfyFilters ==
    [][\A p \in Procs :
          SearchAnswered(p)
              => /\ \A row \in result'[p].data :
                       /\ (search[p].facility_type # "")
                             => row.facility_type = search[p].facility_type
                       /\ (search[p].capacity # 0) => row.capacity >= search[p].capacity
                 /\ (search[p].limit = DefaultLimit /\ search[p].offset = 0)
                       => result'[p].data = MatchingRows(search[p])]_vars

\* a whole answer (default limit, no offset) that holds some rows of the table and not
\* all of them: a filter was supplied, let rows pass and kept rows out
C13_Witness ==
    \E p \in Procs :
        /\ pc[p] = "idle"
        /\ result[p].limit = DefaultLimit /\ result[p].offset = 0
        /\ result[p].data # {}
        /\ result[p].data # facilities
        /\ result[p].total_count = Cardinality(result[p].data)

\* C14: when a name term is supplied, the name of every returned row contains the
\* term, letter case ignored, and total_count counts only rows whose name contains it.
C14_NameFilter ==
    [][\A p \in Procs :
          (SearchAnswered(p) /\ search[p].facility_name # <<>>)
              => /\ \A row \in result'[p].data :
                       ContainsIgnoringCase(row.facility_name, search[p].facility_name)
                 /\ result'[p].total_count =
                       Cardinality({ row \in MatchingRows(search[p]) :
                           ContainsIgnoringCase(row.facility_name,
                                                search[p].facility_name) })]_vars

\* C15: a search whose page is empty answers status "success" with empty data and
\* with total_count the number of rows that pass the filters: 0 when nothing passes,
\* positive when only the offset lies past the last match.
C15_EmptyPageIsSuccess ==
    [][\A p \in Procs :
          (SearchAnswered(p) /\ PageSize(Cardinality(MatchingRows(search[p])), search[p]) = 0)
              => LET n == Cardinality(MatchingRows(search[p]))
                 IN  /\ result'[p].status = "success"
                     /\ result'[p].data = {}
                     /\ result'[p].total_count = n
                     /\ (n > 0 /\ search[p].limit > 0)
                           => /\ search[p].offset >= n
                              /\ result'[p].total_count > 0]_vars

\* an empty page past the last match: total_count is positive
C15_Witness ==
    \E p \in Procs :
        /\ pc[p] = "idle"
        /\ result[p].status = "success"
        /\ result[p].data = {}
        /\ result[p].limit > 0
        /\ result[p].total_count > 0
        /\ result[p].offset >= result[p].total_count

\* ------------------------------------------- attendees, gates, orphans
\* some row of the facility table has this identifier now
ResolvesNow(id) == \E f \in facilities : f.facility_id = id

\* C16: every stored reservation has a positive attendee count.
C16_PositiveAttendees ==
    \A row \in reservations : row.attendee_count > 0

\* the stage that follows a stage of create_reservation when its gate lets through
NextGate(stage) ==
    CASE stage = "create_time" -> "create_overlap"
      [] stage = "create_overlap" -> "create_facility"
      [] stage = "create_facility" -> "create_insert"
      [] stage = "create_insert" -> "create_commit"
      [] OTHER -> "idle"

\* C17: Create passes its gates in the order time check, overlap check, facility
\* resolution, commit, and answers with the error of the first gate that fails: a
\* start in the past gives InvalidTimeRange whatever the store and the facility
\* table hold; past the time gate, an overlapping stored reservation gives
\* SlotConflict even when the facility does not resolve; past both, a facility that
\* does not resolve gives FacilityNotFound; the key is generated and the row stored
\* only by a request that passed all three.
C17_GateOrder ==
    [][/\ \A p \in Procs :
             /\ (pc[p] = "idle" /\ pc'[p] \in CreateStages) => pc'[p] = "create_time"
             /\ (pc[p] \in CreateStages /\ pc'[p] # pc[p])
                   => /\ pc'[p] \in {"idle", NextGate(pc[p])}
                      /\ (pc[p] = "create_time" /\ request[p].start_time < now)
                            => Rejected(response'[p], 400, "InvalidTimeRange")
                      /\ (pc[p] = "create_overlap"
                            /\ \E row \in reservations : Clash(row, request[p]))
                            => Rejected(response'[p], 400, "SlotConflict")
                      /\ (pc[p] = "create_facility"
                            /\ ~ResolvesNow(request[p].facility_id))
                            => Rejected(response'[p], 404, "FacilityNotFound")
                      /\ (pc[p] # "create_commit" /\ pc'[p] = "idle")
                            => response'[p].status_code # 200
       /\ nextId' # nextId => \E p \in Procs : pc[p] = "create_insert"
       /\ reservations' \ reservations # {}
             => \E p \in Procs : pc[p] = "create_commit"]_vars

\* a Create that named a removed facility was rejected with SlotConflict: the
\* overlap gate answered before the facility was looked up
C17_Witness ==
    \E p \in Procs :
        /\ pc[p] = "idle"
        /\ orphaned[p] = "create"
        /\ Rejected(response[p], 400, "SlotConflict")

\* C18: a Cancel of a stored reservation whose facility identifier resolves to no
\* facility is rejected with FacilityNotFound (404) and the row stays; no step
\* removes a reservation whose facility does not resolve, and a Create that overlaps
\* such a reservation is rejected with SlotConflict.
C18_OrphanCannotBeCancelled ==
    [][/\ \A p \in Procs :
             /\ (/\ pc[p] = "delete_facility"
                 /\ pc'[p] # pc[p]
                 /\ ~ResolvesNow(reservation[p].facility_id))
                   => /\ Answered(p)
                      /\ Rejected(response'[p], 404, "FacilityNotFound")
                      /\ reservations' = reservations
             /\ (/\ pc[p] = "create_overlap"
                 /\ pc'[p] # pc[p]
                 /\ \E row \in reservations :
                       Clash(row, request[p]) /\ ~ResolvesNow(row.facility_id))
                   => /\ Answered(p)
                      /\ Rejected(response'[p], 400, "SlotConflict")
                      /\ reservations' = reservations
       /\ \A row \in reservations :
             ~ResolvesNow(row.facility_id) => row \in reservations']_vars

\* a Cancel of a stored reservation whose facility was removed was rejected with
\* FacilityNotFound, and the store still holds a reservation of a removed facility
C18_Witness ==
    \E p \in Procs :
        /\ pc[p] = "idle"
        /\ orphaned[p] = "cancel"
        /\ Rejected(response[p], 404, "FacilityNotFound")
        /\ \E row \in reservations : ~ResolvesNow(row.facility_id)

\* ------------------------------------------------------ frame, sessions
\* C19: a confirmed Create adds exactly one reservation and a confirmed Cancel
\* removes exactly one; a rejected Create or Cancel, and every other step, leaves the
\* reservations as they are; no step changes a field of a stored reservation (a row
\* stays as it is or its identifier leaves the store) or a row of the facility table.
C19_Frame ==
    [][/\ \A p \in Procs :
             Answered(p)
                 => IF Reserved(response'[p])
                       THEN \E row \in reservations' \ reservations :
                               /\ reservations' = reservations \cup {row}
                               /\ row.reservation_id = response'[p].reservation_id
                       ELSE IF Cancelled(response'[p])
                               THEN \E row \in reservations :
                                       /\ reservations' = reservations \ {row}
                                       /\ row.reservation_id = response'[p].reservation_id
                               ELSE reservations' = reservations
       /\ (\A p \in Procs : ~Answered(p)) => reservations' = reservations
       /\ \A row \in reservations :
             \/ row \in reservations'
             \/ ~ \E other \in reservations' : other.reservation_id = row.reservation_id
       /\ facilities' = facilities]_vars

\* C20: the session that get_db opens for a request is closed exactly once, at the
\* step in which the handler returns or raises, whatever the answer (confirmation,
\* 4xx rejection, 500 "Database error" after a failure of the store); a session that
\* is closed stays closed until the slot's next request opens a new one; no slot is
\* idle with its session open; a request in flight is eventually answered and its
\* session closed; the only 5xx answer is 500 "Database error" and it changes no
\* reservation.
C20_SessionClosed ==
    /\ [][\A p \in Procs :
             /\ Answered(p) => (session[p] = "open" /\ session'[p] = "closed")
             /\ (session[p] = "open" /\ session'[p] # "open") => Answered(p)
             /\ (session[p] # "open" /\ session'[p] # session[p])
                   => (pc[p] = "idle" /\ pc'[p] # "idle" /\ session'[p] = "open")
             /\ (Answered(p) /\ response'[p].status_code >= 500)
                   => /\ Rejected(response'[p], 500, "Database error")
                      /\ reservations' = reservations]_vars
    /\ \A p \in Procs : [](pc[p] = "idle" => session[p] # "open")
    /\ \A p \in Procs : [](pc[p] # "idle" => session[p] = "open")
    /\ \A p \in Procs : (session[p] = "open") ~> (pc[p] = "idle" /\ session[p] = "closed")

\* a request whose statement failed in the store was answered 500 "Database error"
\* and its session is closed, after an earlier request had stored a reservation
C20_Witness ==
    \E p \in Procs :
        /\ pc[p] = "idle"
        /\ Rejected(response[p], 500, "Database error")
        /\ session[p] = "closed"
        /\ reservations # {}

====
